---- MODULE Spec2Model ----
(***************************************************************************)
(* Model of exchange_calendars/errors.py.                                  *)
(*                                                                         *)
(* Two independent families of errors:                                     *)
(*   - CalendarError and its six subclasses: a class-level template `msg'  *)
(*     formatted with the keyword context `kwargs'; `message' is a         *)
(*     lazyval, __str__ / __repr__ format on every call.                   *)
(*   - NotSessionError, DateOutOfBounds, NotTradingMinuteError,            *)
(*     MinuteOutOfBounds: __str__ compares a timestamp with the bounds of  *)
(*     a calendar and composes the message.                                *)
(*                                                                         *)
(* Strings are TLA+ strings, built with \o and cut with SubSeq, so that a  *)
(* message of the model is the text Python produces.                       *)
(***************************************************************************)
EXTENDS Integers, Sequences, FiniteSets, TLC

VARIABLES
    tErr,       \* the CalendarError instance: its class and self.kwargs
    msgCache,   \* the lazyval cache entry of `message' for that instance
    tOut,       \* result of the last render of the CalendarError
    tFirst,     \* result of the first render of the CalendarError
    nMut,       \* number of mutations of self.kwargs so far
    cal,        \* the ExchangeCalendar the bounds error refers to
    bErr,       \* the bounds error instance: class, value, param_name
    bOut,       \* result of the last str() of the bounds error
    bPrev,      \* result of the str() before the last one
    nCalMut     \* number of changes of the calendar so far

vars == <<tErr, msgCache, tOut, tFirst, nMut, cal, bErr, bOut, bPrev, nCalMut>>
tvars == <<tErr, msgCache, tOut, tFirst, nMut>>
bvars == <<cal, bErr, bOut, bPrev, nCalMut>>

(***************************************************************************)
(* Bounds of the model.                                                    *)
(***************************************************************************)
\* mutations of self.kwargs in one behaviour
MaxMutations == 1
\* changes of the calendar in one behaviour
MaxCalMutations == 1
\* number of distinct timestamps
NumTs == 3

(***************************************************************************)
(* Strings.  SANY reads a backtick inside a string literal as the start of *)
(* a passage that ends at the next single quote, so a literal holds a      *)
(* backtick only when a single quote follows it in the same literal; the   *)
(* backtick alone is cut out of such a literal.                            *)
(***************************************************************************)
BT == SubSeq("`'", 1, 1)

\* The outcome of a Python call: a returned string, or a raised exception.
Ok(s) == [exc |-> "None", val |-> s]
Raise(e) == [exc |-> e, val |-> ""]

\* Position of the first occurrence of character c in s at or after i; 0 if none.
IndexFrom(s, c, i) ==
    LET at == {j \in i..Len(s) : SubSeq(s, j, j) = c} IN
    IF at = {} THEN 0 ELSE CHOOSE j \in at : \A k \in at : j <= k

\* Variant of StrFormat: only the first field of the template is replaced.
StrFormatFirstOnly(t, kw) ==
    LET o == IndexFrom(t, "{", 1) IN
    IF o = 0 THEN Ok(t)
    ELSE LET c == IndexFrom(t, "}", o + 1) IN
         IF c = 0 THEN Raise("ValueError")
         ELSE LET name == SubSeq(t, o + 1, c - 1) IN
              IF name \notin DOMAIN kw THEN Raise("KeyError")
              ELSE Ok(SubSeq(t, 1, o - 1) \o kw[name] \o SubSeq(t, c + 1, Len(t)))

\* Variant of StrFormat: a field whose name is no key of kw is left as it is
\* written in the template, and no error is raised.
RECURSIVE StrFormatLenient(_, _)
StrFormatLenient(t, kw) ==
    LET o == IndexFrom(t, "{", 1) IN
    IF o = 0 THEN Ok(t)
    ELSE LET c == IndexFrom(t, "}", o + 1) IN
         IF c = 0 THEN Raise("ValueError")
         ELSE LET name == SubSeq(t, o + 1, c - 1)
                  rest == StrFormatLenient(SubSeq(t, c + 1, Len(t)), kw)
              IN  Ok(SubSeq(t, 1, o - 1)
                     \o (IF name \in DOMAIN kw THEN kw[name] ELSE SubSeq(t, o, c))
                     \o rest.val)

(***************************************************************************)
(* str.format with the keywords kw, for a template of literal text and     *)
(* {name} fields: the fields are replaced left to right by the context     *)
(* values (strings, whose format() is the string itself); a name that is   *)
(* no key of kw raises KeyError.  Keys of kw the template does not name    *)
(* are ignored.                                                            *)
(***************************************************************************)
RECURSIVE StrFormat(_, _)
StrFormat(t, kw) ==
    LET o == IndexFrom(t, "{", 1) IN
    IF o = 0 THEN Ok(t)
    ELSE LET c == IndexFrom(t, "}", o + 1) IN
         IF c = 0 THEN Raise("ValueError")
         ELSE LET name == SubSeq(t, o + 1, c - 1)
                  rest == StrFormat(SubSeq(t, c + 1, Len(t)), kw)
              IN  IF name \notin DOMAIN kw THEN Raise("KeyError")
                  ELSE IF rest.exc # "None" THEN rest
                  ELSE Ok(SubSeq(t, 1, o - 1) \o kw[name] \o rest.val)

(***************************************************************************)
(* The CalendarError family.                                               *)
(***************************************************************************)
TemplatedKinds ==
    {"InvalidCalendarName", "CalendarNameCollision", "CyclicCalendarAlias",
     "ScheduleFunctionWithoutCalendar", "NoSessionsError",
     "ScheduleFunctionInvalidCalendar"}

\* The class attribute msg of each subclass.
InvalidCalendarName_msg ==
    "The requested ExchangeCalendar, {calendar_name}, does not exist."
CalendarNameCollision_msg ==
    "A calendar with the name {calendar_name} is already registered."
CyclicCalendarAlias_msg ==
    "Cycle in calendar aliases: [{cycle}]"
ScheduleFunctionWithoutCalendar_msg ==
    "To use schedule_function, the TradingAlgorithm must be running on an "
    \o "ExchangeTradingSchedule, rather than {schedule}."
NoSessionsError_msg ==
    "The requested ExchangeCalendar, {calendar_name}, cannot be created as"
    \o " there would be no sessions between the requested `start` ('{start}')"
    \o " and `end` ('{end}') dates."
ScheduleFunctionInvalidCalendar_msg ==
    "Invalid calendar '{given_calendar}' passed to schedule_function. "
    \o "Allowed options are {allowed_calendars}."

msg(kind) ==
    CASE kind = "InvalidCalendarName" -> InvalidCalendarName_msg
      [] kind = "CalendarNameCollision" -> CalendarNameCollision_msg
      [] kind = "CyclicCalendarAlias" -> CyclicCalendarAlias_msg
      [] kind = "ScheduleFunctionWithoutCalendar" -> ScheduleFunctionWithoutCalendar_msg
      [] kind = "NoSessionsError" -> NoSessionsError_msg
      [] kind = "ScheduleFunctionInvalidCalendar" -> ScheduleFunctionInvalidCalendar_msg

\* CalendarError.__str__: self.msg.format with self.kwargs, on every call.
CalendarError_str(e) == StrFormat(msg(e.kind), e.kwargs)

\* The placeholders of each template: the fields a raise site has to pass.
Required(kind) ==
    CASE kind = "InvalidCalendarName" -> {"calendar_name"}
      [] kind = "CalendarNameCollision" -> {"calendar_name"}
      [] kind = "CyclicCalendarAlias" -> {"cycle"}
      [] kind = "ScheduleFunctionWithoutCalendar" -> {"schedule"}
      [] kind = "NoSessionsError" -> {"calendar_name", "start", "end"}
      [] kind = "ScheduleFunctionInvalidCalendar" -> {"given_calendar", "allowed_calendars"}
      [] OTHER -> {}

\* Context values used as inputs.
Values == {"XYZ", "2020-01-01"}

\* The keyword contexts a raise site passes: the required fields, or the
\* required fields less one (the programmer error of a missing field).
Contexts(kind) ==
    UNION {[D -> Values] :
             D \in {Required(kind)} \cup {Required(kind) \ {f} : f \in Required(kind)}}

NoTErr == [kind |-> "None", kwargs |-> <<>>]
NoCache == [set |-> FALSE, val |-> ""]
\* A recorded render: the operation, its outcome, and the number of mutations
\* (of the context, or of the calendar) that had happened when it ran.
NoOut == [op |-> "none", exc |-> "None", val |-> "", at |-> 0]

Rendered(op, r, n) == [op |-> op, exc |-> r.exc, val |-> r.val, at |-> n]

InitT ==
    /\ tErr = NoTErr
    /\ msgCache = NoCache
    /\ tOut = NoOut
    /\ tFirst = NoOut
    /\ nMut = 0
    /\ cal = [name |-> "", first_session |-> 0, last_session |-> 0,
              first_trading_minute |-> 0, last_trading_minute |-> 0]
    /\ bErr = [kind |-> "None", value |-> 0, param_name |-> ""]
    /\ bOut = NoOut
    /\ bPrev = NoOut
    /\ nCalMut = 0

\* CalendarError.__init__ with keyword arguments kw: self.kwargs = kwargs.
CalendarError_init(kind, kw) ==
    /\ tErr = NoTErr
    /\ tErr' = [kind |-> kind, kwargs |-> kw]
    /\ UNCHANGED <<msgCache, tOut, tFirst, nMut>>
    /\ UNCHANGED bvars

\* A render is recorded as the last one, and as the first one if none was before.
Record(r) ==
    /\ tOut' = r
    /\ tFirst' = IF tFirst.op = "none" THEN r ELSE tFirst

\* str(e): CalendarError.__str__.
Str ==
    /\ tErr # NoTErr
    /\ Record(Rendered("str", CalendarError_str(tErr), nMut))
    /\ UNCHANGED <<tErr, msgCache, nMut>>
    /\ UNCHANGED bvars

\* repr(e): __repr__ = __str__.
Repr ==
    /\ tErr # NoTErr
    /\ Record(Rendered("repr", CalendarError_str(tErr), nMut))
    /\ UNCHANGED <<tErr, msgCache, nMut>>
    /\ UNCHANGED bvars

\* lazyval.__get__: the cached value if the instance has one; otherwise the
\* getter is called, and its value is cached when it returns one (an
\* exception of the getter propagates and nothing is cached).
LazyvalGet(cache, computed) ==
    IF cache.set THEN [result |-> Ok(cache.val), cache |-> cache]
    ELSE IF computed.exc = "None"
         THEN [result |-> computed, cache |-> [set |-> TRUE, val |-> computed.val]]
         ELSE [result |-> computed, cache |-> cache]

\* Variant of Message: a plain property, computed on every access.
MessagePlain ==
    /\ tErr # NoTErr
    /\ Record(Rendered("message", CalendarError_str(tErr), nMut))
    /\ UNCHANGED <<tErr, msgCache, nMut>>
    /\ UNCHANGED bvars

\* e.message: the lazyval whose getter returns str(self).
Message ==
    /\ tErr # NoTErr
    /\ LET g == LazyvalGet(msgCache, CalendarError_str(tErr)) IN
         /\ Record(Rendered("message", g.result, nMut))
         /\ msgCache' = g.cache
    /\ UNCHANGED <<tErr, nMut>>
    /\ UNCHANGED bvars

\* e.kwargs[key] = v: a mutation of the context mapping after construction.
SetItem(key, v) ==
    /\ tErr # NoTErr
    /\ nMut < MaxMutations
    /\ tErr' = [tErr EXCEPT !.kwargs =
                  [k \in DOMAIN tErr.kwargs \cup {key} |->
                     IF k = key THEN v ELSE tErr.kwargs[k]]]
    /\ tErr' # tErr
    /\ nMut' = nMut + 1
    /\ UNCHANGED <<msgCache, tOut, tFirst>>
    /\ UNCHANGED bvars

\* del e.kwargs[key].
DelItem(key) ==
    /\ tErr # NoTErr
    /\ nMut < MaxMutations
    /\ key \in DOMAIN tErr.kwargs
    /\ tErr' = [tErr EXCEPT !.kwargs =
                  [k \in DOMAIN tErr.kwargs \ {key} |-> tErr.kwargs[k]]]
    /\ nMut' = nMut + 1
    /\ UNCHANGED <<msgCache, tOut, tFirst>>
    /\ UNCHANGED bvars

NextT ==
    \/ \E k \in TemplatedKinds : \E kw \in Contexts(k) : CalendarError_init(k, kw)
    \/ Str
    \/ Repr
    \/ Message
    \/ \E key \in Required(tErr.kind) : \E v \in Values : SetItem(key, v)
    \/ \E key \in Required(tErr.kind) : DelItem(key)

SpecT == InitT /\ [][NextT]_vars

(***************************************************************************)
(* Timestamps.  A pd.Timestamp is modelled by its number of whole minutes  *)
(* since 1970-01-01 00:00 (no timezone); < and > compare the numbers, and  *)
(* an f-string field renders it as str(ts): YYYY-MM-DD HH:MM:SS.           *)
(***************************************************************************)
Digit(d) == SubSeq("0123456789", d + 1, d + 1)
Pad2(n) == Digit((n \div 10) % 10) \o Digit(n % 10)
Pad4(n) == Pad2(n \div 100) \o Pad2(n % 100)

\* Year, month and day of the day numbered z from 1970-01-01 (proleptic
\* Gregorian calendar).
CivilFromDays(z) ==
    LET zz == z + 719468
        era == zz \div 146097
        doe == zz - era * 146097
        yoe == (doe - doe \div 1460 + doe \div 36524 - doe \div 146096) \div 365
        doy == doe - (365 * yoe + yoe \div 4 - yoe \div 100)
        mp == (5 * doy + 2) \div 153
        d == doy - (153 * mp + 2) \div 5 + 1
        m == IF mp < 10 THEN mp + 3 ELSE mp - 9
        y == yoe + era * 400 + (IF m <= 2 THEN 1 ELSE 0)
    IN  [y |-> y, m |-> m, d |-> d]

TsStr(t) ==
    LET c == CivilFromDays(t \div 1440)
        hm == t % 1440
    IN  Pad4(c.y) \o "-" \o Pad2(c.m) \o "-" \o Pad2(c.d) \o " "
        \o Pad2(hm \div 60) \o ":" \o Pad2(hm % 60) \o ":00"

\* The timestamps used as inputs: 2019-12-31 00:00:00, then every 183 days,
\* 9 hours and 31 minutes.
TsOf(k) == (18261 + 183 * k) * 1440 + 571 * k
Timestamps == {TsOf(k) : k \in 0..(NumTs - 1)}

(***************************************************************************)
(* The calendar: the five attributes the messages read.  A calendar has    *)
(* its first session no later than its last, and likewise its minutes.     *)
(***************************************************************************)
CalendarNames == {"TEST", "XNYS"}
Calendars ==
    {c \in [name : CalendarNames,
            first_session : Timestamps, last_session : Timestamps,
            first_trading_minute : Timestamps, last_trading_minute : Timestamps] :
        /\ c.first_session <= c.last_session
        /\ c.first_trading_minute <= c.last_trading_minute}

BoundFields ==
    {"first_session", "last_session", "first_trading_minute", "last_trading_minute"}

(***************************************************************************)
(* The four bounds errors.                                                 *)
(***************************************************************************)
BoundsKinds ==
    {"NotSessionError", "DateOutOfBounds", "NotTradingMinuteError", "MinuteOutOfBounds"}
ParamNames == {"session", "calendar", "date"}

NoBErr == [kind |-> "None", value |-> 0, param_name |-> ""]

\* Variant of NotSessionError_str: the bounds are compared with <= and >=.
NotSessionError_strInclusive(calendar, ts, param_name) ==
    LET m == "Parameter " \o BT \o param_name \o BT \o " takes a session label"
             \o " although received input that parsed to '" \o TsStr(ts) \o "' which"
    IN  IF ts <= calendar.first_session
        THEN Ok(m \o " is earlier than the first session of calendar"
                  \o " '" \o calendar.name \o "' ('" \o TsStr(calendar.first_session) \o "').")
        ELSE IF ts >= calendar.last_session
        THEN Ok(m \o " is later than the last session of calendar"
                  \o " '" \o calendar.name \o "' ('" \o TsStr(calendar.last_session) \o "').")
        ELSE Ok(m \o " is not a session of calendar '" \o calendar.name \o "'.")

\* Variant of NotSessionError_str: the param_name is written a second time,
\* in the wording.
NotSessionError_strNamedTwice(calendar, ts, param_name) ==
    LET m == "Parameter " \o BT \o param_name \o BT \o " takes a session label"
             \o " although " \o param_name \o " received input that parsed to '"
             \o TsStr(ts) \o "' which"
    IN  IF ts < calendar.first_session
        THEN Ok(m \o " is earlier than the first session of calendar"
                  \o " '" \o calendar.name \o "' ('" \o TsStr(calendar.first_session) \o "').")
        ELSE IF ts > calendar.last_session
        THEN Ok(m \o " is later than the last session of calendar"
                  \o " '" \o calendar.name \o "' ('" \o TsStr(calendar.last_session) \o "').")
        ELSE Ok(m \o " is not a session of calendar '" \o calendar.name \o "'.")

\* NotSessionError.__str__
NotSessionError_str(calendar, ts, param_name) ==
    LET m == "Parameter " \o BT \o param_name \o BT \o " takes a session label"
             \o " although received input that parsed to '" \o TsStr(ts) \o "' which"
    IN  IF ts < calendar.first_session
        THEN Ok(m \o " is earlier than the first session of calendar"
                  \o " '" \o calendar.name \o "' ('" \o TsStr(calendar.first_session) \o "').")
        ELSE IF ts > calendar.last_session
        THEN Ok(m \o " is later than the last session of calendar"
                  \o " '" \o calendar.name \o "' ('" \o TsStr(calendar.last_session) \o "').")
        ELSE Ok(m \o " is not a session of calendar '" \o calendar.name \o "'.")

\* Variant of DateOutOfBounds_str: the else branch does not assert and the
\* message composed so far is returned.
DateOutOfBounds_strNoAssert(calendar, date, param_name) ==
    LET m == "Parameter " \o BT \o param_name \o BT \o " receieved as '"
             \o TsStr(date) \o "' although"
    IN  IF date < calendar.first_session
        THEN Ok(m \o " cannot be earlier than the first session of calendar"
                  \o " '" \o calendar.name \o "' ('" \o TsStr(calendar.first_session) \o "').")
        ELSE IF date > calendar.last_session
        THEN Ok(m \o " cannot be later than the last session of calendar"
                  \o " '" \o calendar.name \o "' ('" \o TsStr(calendar.last_session) \o "').")
        ELSE Ok(m)

\* DateOutOfBounds.__str__
DateOutOfBounds_str(calendar, date, param_name) ==
    LET m == "Parameter " \o BT \o param_name \o BT \o " receieved as '"
             \o TsStr(date) \o "' although"
    IN  IF date < calendar.first_session
        THEN Ok(m \o " cannot be earlier than the first session of calendar"
                  \o " '" \o calendar.name \o "' ('" \o TsStr(calendar.first_session) \o "').")
        ELSE IF date > calendar.last_session
        THEN Ok(m \o " cannot be later than the last session of calendar"
                  \o " '" \o calendar.name \o "' ('" \o TsStr(calendar.last_session) \o "').")
        ELSE IF date < calendar.first_session \/ date > calendar.last_session
        THEN Ok(m)
        ELSE Raise("AssertionError")

\* NotTradingMinuteError.__str__
NotTradingMinuteError_str(calendar, minute, param_name) ==
    LET m == "Parameter " \o BT \o param_name \o BT \o " takes a trading minute although"
             \o " received input that parsed to '" \o TsStr(minute) \o "' which"
    IN  IF minute < calendar.first_trading_minute
        THEN Ok(m \o " is earlier than the first trading minute of calendar"
                  \o " '" \o calendar.name \o "' ('" \o TsStr(calendar.first_session) \o "').")
        ELSE IF minute > calendar.last_session
        THEN Ok(m \o " is later than the last trading minute of calendar"
                  \o " '" \o calendar.name \o "' ('" \o TsStr(calendar.last_session) \o "').")
        ELSE Ok(m \o " is not a trading minute of calendar '" \o calendar.name \o "'.")

\* MinuteOutOfBounds.__str__
MinuteOutOfBounds_str(calendar, minute, param_name) ==
    LET m == "Parameter " \o BT \o param_name \o BT \o " receieved as '"
             \o TsStr(minute) \o "' although"
    IN  IF minute < calendar.first_trading_minute
        THEN Ok(m \o " cannot be earlier than the first trading minute of calendar"
                  \o " '" \o calendar.name \o "' ('"
                  \o TsStr(calendar.first_trading_minute) \o "').")
        ELSE IF minute > calendar.last_trading_minute
        THEN Ok(m \o " cannot be later than the last trading minute of calendar"
                  \o " '" \o calendar.name \o "' ('"
                  \o TsStr(calendar.last_trading_minute) \o "').")
        ELSE IF minute < calendar.first_trading_minute
                \/ minute > calendar.last_trading_minute
        THEN Ok(m)
        ELSE Raise("AssertionError")

\* str(e) of a bounds error e that refers to calendar c: the __str__ of its class.
BoundsStr(e, c) ==
    CASE e.kind = "NotSessionError" -> NotSessionError_str(c, e.value, e.param_name)
      [] e.kind = "DateOutOfBounds" -> DateOutOfBounds_str(c, e.value, e.param_name)
      [] e.kind = "NotTradingMinuteError" ->
            NotTradingMinuteError_str(c, e.value, e.param_name)
      [] e.kind = "MinuteOutOfBounds" -> MinuteOutOfBounds_str(c, e.value, e.param_name)

InitB ==
    /\ cal \in {c \in Calendars : c.name = "TEST"}
    /\ bErr = NoBErr
    /\ bOut = NoOut
    /\ bPrev = NoOut
    /\ nCalMut = 0
    /\ tErr = NoTErr
    /\ msgCache = NoCache
    /\ tOut = NoOut
    /\ tFirst = NoOut
    /\ nMut = 0

\* __init__(calendar, value, param_name) of the four classes: the error keeps
\* a reference to the calendar, the value and the parameter name.
BoundsError_init(kind, value, param_name) ==
    /\ bErr = NoBErr
    /\ bErr' = [kind |-> kind, value |-> value, param_name |-> param_name]
    /\ UNCHANGED <<cal, bOut, bPrev, nCalMut>>
    /\ UNCHANGED tvars

\* Variant of BStr: the value is clamped into the calendar's session bounds
\* and stored back in the error while the message is composed.
BStrClamping ==
    /\ bErr # NoBErr
    /\ bOut' = Rendered("str", BoundsStr(bErr, cal), nCalMut)
    /\ bPrev' = bOut
    /\ bErr' = [bErr EXCEPT !.value =
                  IF @ < cal.first_session THEN cal.first_session
                  ELSE IF @ > cal.last_session THEN cal.last_session ELSE @]
    /\ UNCHANGED <<cal, nCalMut>>
    /\ UNCHANGED tvars

\* Variant of BStr: the message is composed on the first call and kept.
BStrMemoised ==
    /\ bErr # NoBErr
    /\ bOut' = IF bOut.op = "none"
               THEN Rendered("str", BoundsStr(bErr, cal), nCalMut)
               ELSE [bOut EXCEPT !.at = nCalMut]
    /\ bPrev' = bOut
    /\ UNCHANGED <<cal, bErr, nCalMut>>
    /\ UNCHANGED tvars

\* str(e): the message is composed from the error's fields and from the
\* calendar as it is now; nothing else is written.
BStr ==
    /\ bErr # NoBErr
    /\ bOut' = Rendered("str", BoundsStr(bErr, cal), nCalMut)
    /\ bPrev' = bOut
    /\ UNCHANGED <<cal, bErr, nCalMut>>
    /\ UNCHANGED tvars

\* The calendar the error refers to is changed by its owner: one bound.
SetBound(field, t) ==
    /\ nCalMut < MaxCalMutations
    /\ cal' = [cal EXCEPT ![field] = t]
    /\ cal' # cal
    /\ cal' \in Calendars
    /\ nCalMut' = nCalMut + 1
    /\ UNCHANGED <<bErr, bOut, bPrev>>
    /\ UNCHANGED tvars

\* The calendar the error refers to is changed by its owner: its name.
SetName(n) ==
    /\ nCalMut < MaxCalMutations
    /\ cal' = [cal EXCEPT !.name = n]
    /\ cal' # cal
    /\ nCalMut' = nCalMut + 1
    /\ UNCHANGED <<bErr, bOut, bPrev>>
    /\ UNCHANGED tvars

NextB ==
    \/ \E k \in BoundsKinds : \E t \in Timestamps : \E p \in ParamNames :
          BoundsError_init(k, t, p)
    \/ BStr
    \/ \E f \in BoundFields : \E t \in Timestamps : SetBound(f, t)
    \/ \E n \in CalendarNames : SetName(n)

SpecB == InitB /\ [][NextB]_vars

(***************************************************************************)
(* Properties of the CalendarError family, checked under SpecT.            *)
(***************************************************************************)
\* The text of each template with its placeholders filled in, written out.
TemplateText(kind, kw) ==
    CASE kind = "InvalidCalendarName" ->
            "The requested ExchangeCalendar, " \o kw["calendar_name"] \o ", does not exist."
      [] kind = "CalendarNameCollision" ->
            "A calendar with the name " \o kw["calendar_name"] \o " is already registered."
      [] kind = "CyclicCalendarAlias" ->
            "Cycle in calendar aliases: [" \o kw["cycle"] \o "]"
      [] kind = "ScheduleFunctionWithoutCalendar" ->
            "To use schedule_function, the TradingAlgorithm must be running on an "
            \o "ExchangeTradingSchedule, rather than " \o kw["schedule"] \o "."
      [] kind = "NoSessionsError" ->
            "The requested ExchangeCalendar, " \o kw["calendar_name"]
            \o ", cannot be created as there would be no sessions between the"
            \o " requested `start` ('" \o kw["start"] \o "') and `end` ('"
            \o kw["end"] \o "') dates."
      [] kind = "ScheduleFunctionInvalidCalendar" ->
            "Invalid calendar '" \o kw["given_calendar"]
            \o "' passed to schedule_function. Allowed options are "
            \o kw["allowed_calendars"] \o "."

\* The context is the one passed at construction and holds exactly the
\* fields the template names.
AsConstructedFull ==
    /\ tErr # NoTErr
    /\ nMut = 0
    /\ DOMAIN tErr.kwargs = Required(tErr.kind)

\* C1: an error of any of the six kinds constructed with exactly its required
\* fields renders (message, str or repr) as the literal text of its template
\* with every placeholder replaced by the context value, nothing else changed.
C1_TemplateRendered ==
    (AsConstructedFull /\ tOut.op # "none") =>
        /\ tOut.exc = "None"
        /\ tOut.val = TemplateText(tErr.kind, tErr.kwargs)

\* C1 happens: a NoSessionsError with its three fields was rendered by message.
C1_Witness ==
    /\ AsConstructedFull
    /\ tErr.kind = "NoSessionsError"
    /\ tErr.kwargs["calendar_name"] # tErr.kwargs["start"]
    /\ tOut.op = "message"
    /\ tOut.exc = "None"

\* C2 as stated: every render that returns a string after the first render
\* returns the string of the first render, whatever was done to kwargs between.
C2_EveryRenderAsFirst ==
    (tFirst.op # "none" /\ tFirst.exc = "None" /\ tOut.exc = "None") =>
        tOut.val = tFirst.val

\* C2 as amended: the lazyval cache of message, once set, never changes;
\* a message access returns the cached string when there is one, whatever
\* was done to kwargs since, and raises only when nothing is cached; str()
\* and repr() format the template with kwargs as it is at the call.
C2_OnlyMessageMemoised ==
    /\ [][msgCache.set => msgCache' = msgCache]_vars
    /\ [](tOut.op = "message" =>
             IF msgCache.set
             THEN tOut.exc = "None" /\ tOut.val = msgCache.val
             ELSE tOut.exc # "None")
    /\ []((tOut.op \in {"str", "repr"} /\ tOut.at = nMut) =>
             (tOut.exc = CalendarError_str(tErr).exc
              /\ tOut.val = CalendarError_str(tErr).val))

\* C2 happens: message was read first, kwargs was then changed, and a later
\* message access returned the first string, not the text of the new context.
C2_Witness ==
    /\ tFirst.op = "message" /\ tFirst.exc = "None" /\ tFirst.at = 0
    /\ tOut.op = "message" /\ tOut.at > 0
    /\ tOut.val = tFirst.val
    /\ CalendarError_str(tErr).exc = "None"
    /\ CalendarError_str(tErr).val # tOut.val

\* C6: an error constructed without one of the fields its template names
\* never renders: message, str and repr raise the formatting error (KeyError),
\* no text is returned and the failed render caches nothing.
C6_MissingFieldFails ==
    (tErr # NoTErr /\ nMut = 0 /\ ~(Required(tErr.kind) \subseteq DOMAIN tErr.kwargs)
       /\ tOut.op # "none") =>
        /\ tOut.exc = "KeyError"
        /\ tOut.val = ""
        /\ ~msgCache.set

\* C6 happens: message was read on a NoSessionsError constructed without `end'.
C6_Witness ==
    /\ tErr.kind = "NoSessionsError"
    /\ nMut = 0
    /\ DOMAIN tErr.kwargs = {"calendar_name", "start"}
    /\ tOut.op = "message"
    /\ tOut.exc = "KeyError"

(***************************************************************************)
(* Properties of the four bounds errors, checked under SpecB.              *)
(***************************************************************************)
\* The last str() ran on the calendar as it is now.
Fresh == bOut.op # "none" /\ bOut.at = nCalMut

Returned == Fresh /\ bOut.exc = "None"

\* Number of places of s where p occurs.
Count(p, s) ==
    Cardinality({i \in 1..(Len(s) - Len(p) + 1) : SubSeq(s, i, i + Len(p) - 1) = p})

EndsWith(s, suffix) ==
    /\ Len(s) >= Len(suffix)
    /\ SubSeq(s, Len(s) - Len(suffix) + 1, Len(s)) = suffix

StartsWith(s, prefix) ==
    /\ Len(s) >= Len(prefix)
    /\ SubSeq(s, 1, Len(prefix)) = prefix

\* C3: NotSessionError renders as the prefix followed by exactly one of three
\* endings: the earlier ending iff ts < first_session, the later ending iff
\* ts > last_session, the not-a-session ending iff first_session <= ts <=
\* last_session.
C3_NotSessionThreeWay ==
    (Fresh /\ bErr.kind = "NotSessionError") =>
        LET ts == bErr.value
            prefix == "Parameter " \o BT \o bErr.param_name \o BT
                      \o " takes a session label although received input that parsed to '"
                      \o TsStr(ts) \o "' which"
            earlier == prefix \o " is earlier than the first session of calendar '"
                       \o cal.name \o "' ('" \o TsStr(cal.first_session) \o "')."
            later == prefix \o " is later than the last session of calendar '"
                     \o cal.name \o "' ('" \o TsStr(cal.last_session) \o "')."
            within == prefix \o " is not a session of calendar '" \o cal.name \o "'."
        IN  /\ bOut.exc = "None"
            /\ bOut.val \in {earlier, later, within}
            /\ bOut.val = earlier <=> ts < cal.first_session
            /\ bOut.val = later <=> ts > cal.last_session
            /\ bOut.val = within <=> (cal.first_session <= ts /\ ts <= cal.last_session)

\* C3 happens: a NotSessionError whose ts equals the first session of a
\* calendar with more than one session was rendered.
C3_Witness ==
    /\ Returned
    /\ bErr.kind = "NotSessionError"
    /\ bErr.value = cal.first_session
    /\ cal.first_session < cal.last_session

\* C4: the message of NotTradingMinuteError and MinuteOutOfBounds depends on
\* the calendar only through first_trading_minute, last_trading_minute and
\* name: the branch is chosen by comparing the minute with the two trading
\* minute bounds, the bound printed is first_trading_minute (earlier) or
\* last_trading_minute (later), and calendars that differ only in
\* first_session / last_session give the same message.
C4_MinuteVariantsReadMinuteBounds ==
    (Fresh /\ bErr.kind \in {"NotTradingMinuteError", "MinuteOutOfBounds"}) =>
        LET minute == bErr.value IN
        /\ \A c \in Calendars :
              (/\ c.name = cal.name
               /\ c.first_trading_minute = cal.first_trading_minute
               /\ c.last_trading_minute = cal.last_trading_minute)
              => (BoundsStr(bErr, c).exc = bOut.exc /\ BoundsStr(bErr, c).val = bOut.val)
        /\ minute < cal.first_trading_minute =>
              /\ bOut.exc = "None"
              /\ EndsWith(bOut.val, " earlier than the first trading minute of calendar '"
                                    \o cal.name \o "' ('"
                                    \o TsStr(cal.first_trading_minute) \o "').")
        /\ minute > cal.last_trading_minute =>
              /\ bOut.exc = "None"
              /\ EndsWith(bOut.val, " later than the last trading minute of calendar '"
                                    \o cal.name \o "' ('"
                                    \o TsStr(cal.last_trading_minute) \o "').")
        /\ (cal.first_trading_minute <= minute /\ minute <= cal.last_trading_minute) =>
              IF bErr.kind = "NotTradingMinuteError"
              THEN /\ bOut.exc = "None"
                   /\ EndsWith(bOut.val, " which is not a trading minute of calendar '"
                                         \o cal.name \o "'.")
              ELSE bOut.exc = "AssertionError"

\* C5: DateOutOfBounds and MinuteOutOfBounds with a value strictly outside
\* the bounds render as "Parameter `<param_name>` received as '<value>'
\* although" followed by the cannot-be-earlier clause with the lower bound,
\* or the cannot-be-later clause with the upper bound.
C5_OutOfBoundsText ==
    (Fresh /\ bErr.kind \in {"DateOutOfBounds", "MinuteOutOfBounds"}) =>
        LET value == bErr.value
            isDate == bErr.kind = "DateOutOfBounds"
            label == IF isDate THEN "session" ELSE "trading minute"
            lower == IF isDate THEN cal.first_session ELSE cal.first_trading_minute
            upper == IF isDate THEN cal.last_session ELSE cal.last_trading_minute
            prefix == "Parameter " \o BT \o bErr.param_name \o BT \o " received as '"
                      \o TsStr(value) \o "' although"
        IN  /\ value < lower =>
                 /\ bOut.exc = "None"
                 /\ bOut.val = prefix \o " cannot be earlier than the first " \o label
                                \o " of calendar '" \o cal.name \o "' ('"
                                \o TsStr(lower) \o "')."
            /\ value > upper =>
                 /\ bOut.exc = "None"
                 /\ bOut.val = prefix \o " cannot be later than the last " \o label
                                \o " of calendar '" \o cal.name \o "' ('"
                                \o TsStr(upper) \o "')."

\* C7 as stated: a rendered message of any of the four bounds errors holds
\* the param_name exactly once, also when it is `session' or `calendar'.
C7_ParamNameExactlyOnce ==
    Returned => Count(bErr.param_name, bOut.val) = 1

\* The message the same error gives, on the same calendar, when its
\* param_name is the empty string.
UnnamedMessage == BoundsStr([bErr EXCEPT !.param_name = ""], cal).val

\* C7 as amended: the param_name passed at construction is inserted verbatim
\* at one place of the message, between its first two backticks: the message
\* is the one the error gives with an empty param_name, with the param_name
\* put there.  How often the message holds it as a substring depends on the
\* rest of the message: `date', which no wording holds, occurs exactly once
\* in all four variants; `session' occurs exactly once in NotTradingMinuteError
\* and MinuteOutOfBounds and more than once in NotSessionError and
\* DateOutOfBounds; `calendar' occurs more than once in all four (the
\* calendar's name holding none of these words).
C7_ParamNameInSlot ==
    Returned =>
        LET p == bErr.param_name
            n == Count(p, bOut.val)
            head == "Parameter " \o BT
        IN  /\ StartsWith(UnnamedMessage, head \o BT)
            /\ bOut.val = head \o p
                          \o SubSeq(UnnamedMessage, Len(head) + 1, Len(UnnamedMessage))
            /\ n = 1 + Count(p, UnnamedMessage)
            /\ p = "date" => n = 1
            /\ p = "calendar" => n > 1
            /\ p = "session" =>
                 (n = 1 <=> bErr.kind \in {"NotTradingMinuteError", "MinuteOutOfBounds"})

\* C7 happens: a NotSessionError for the parameter `session' was rendered with
\* a value before the first session, and the message holds the word three
\* times: in its slot, in `takes a session label' and in `first session'.
C7_Witness ==
    /\ Returned
    /\ bErr.kind = "NotSessionError"
    /\ bErr.param_name = "session"
    /\ bErr.value < cal.first_session
    /\ Count("session", bOut.val) = 3

\* C8: str() of a DateOutOfBounds whose date is within [first_session,
\* last_session], or of a MinuteOutOfBounds whose minute is within
\* [first_trading_minute, last_trading_minute], bounds included, fails the
\* assertion and returns no message.
C8_InBoundsAsserts ==
    /\ (Fresh /\ bErr.kind = "DateOutOfBounds"
          /\ cal.first_session <= bErr.value /\ bErr.value <= cal.last_session)
        => (bOut.exc = "AssertionError" /\ bOut.val = "")
    /\ (Fresh /\ bErr.kind = "MinuteOutOfBounds"
          /\ cal.first_trading_minute <= bErr.value
          /\ bErr.value <= cal.last_trading_minute)
        => (bOut.exc = "AssertionError" /\ bOut.val = "")

\* C8 happens: str() ran on a DateOutOfBounds whose date is the last session.
C8_Witness ==
    /\ Fresh
    /\ bErr.kind = "DateOutOfBounds"
    /\ bErr.value = cal.last_session
    /\ cal.first_session < cal.last_session

\* C9: a str() of a bounds error changes neither the calendar nor the error,
\* and two str() with no change of the calendar between them give the same
\* result.
C9_RenderHasNoEffect ==
    /\ [][(bOut' # bOut \/ bPrev' # bPrev) =>
            (cal' = cal /\ bErr' = bErr /\ nCalMut' = nCalMut)]_vars
    /\ []((bPrev.op # "none" /\ bPrev.at = bOut.at) =>
            (bPrev.exc = bOut.exc /\ bPrev.val = bOut.val))

\* C9 happens: an error whose value lies before the first session was
\* rendered twice with no change of the calendar between.
C9_Witness ==
    /\ bPrev.op # "none"
    /\ bPrev.at = bOut.at
    /\ bOut.exc = "None"
    /\ bErr.value < cal.first_session

\* C10: every str() of a bounds error gives the message of the calendar as
\* it is at that call, not as it was at construction or at an earlier str().
C10_RenderReadsLiveCalendar ==
    Fresh => (bOut.exc = BoundsStr(bErr, cal).exc /\ bOut.val = BoundsStr(bErr, cal).val)

\* C10 happens: the calendar was changed between two str() of the same
\* error, and the second message differs from the first.
C10_Witness ==
    /\ bPrev.op # "none" /\ bPrev.exc = "None"
    /\ Returned
    /\ bPrev.at < bOut.at
    /\ bPrev.val # bOut.val

====
